---------------------------- MODULE Spec2Model ----------------------------
(***************************************************************************)
(* Model of the image endpoints of img-optimization-playground:            *)
(*   /img         buffered loader   (src/app/routes/img.ts)                *)
(*   /img-stream  streaming loader  (src/unnamed/part_000)                 *)
(*                                                                         *)
(* Strings are sequences of tokens.  A token is one character ("/", ".",   *)
(* "-", a digit, a letter) or, in paths, a whole file name ("public",      *)
(* "cat").  Bytes are natural numbers.                                     *)
(***************************************************************************)
EXTENDS Integers, Sequences, FiniteSets, TLC

(***************************************************************************)
(* Bounds of the model.                                                    *)
(***************************************************************************)
\* largest dimension a request asks for as a plain decimal string
MaxDim == 2
\* largest value a memory snapshot takes
MaxMem == 1
\* bytes one chunk of a stream carries
ChunkSize == 2

(***************************************************************************)
(* JavaScript values.                                                      *)
(***************************************************************************)
\* URLSearchParams.get returns null for an absent parameter
Null == <<"#null">>

JsNull == [t |-> "null"]
JsNaN == [t |-> "NaN"]
Num(n) == [t |-> "number", v |-> n]

\* ToBoolean of null, NaN or a number
Truthy(x) == x.t = "number" /\ x.v # 0

\* ToBoolean of a string or null
TruthyStr(s) == s # Null /\ s # <<>>

Digits == {"0", "1", "2", "3", "4", "5", "6", "7", "8", "9"}

DigitVal(c) ==
  CASE c = "0" -> 0 [] c = "1" -> 1 [] c = "2" -> 2 [] c = "3" -> 3
    [] c = "4" -> 4 [] c = "5" -> 5 [] c = "6" -> 6 [] c = "7" -> 7
    [] c = "8" -> 8 [] c = "9" -> 9

RECURSIVE SkipSpace(_)
SkipSpace(s) ==
  IF s # <<>> /\ Head(s) = " " THEN SkipSpace(Tail(s)) ELSE s

\* the value of the longest prefix of digits of s, continuing from acc
RECURSIVE DigitPrefix(_, _)
DigitPrefix(s, acc) ==
  IF s # <<>> /\ Head(s) \in Digits
  THEN DigitPrefix(Tail(s), 10 * acc + DigitVal(Head(s)))
  ELSE acc

\* parseInt(s, 10): leading white space, an optional sign, then the longest
\* run of digits; whatever follows the digits is ignored; NaN without a digit
parseInt(s) ==
  LET t == SkipSpace(s)
      neg == t # <<>> /\ Head(t) = "-"
      u == IF t # <<>> /\ Head(t) \in {"-", "+"} THEN Tail(t) ELSE t
  IN IF u # <<>> /\ Head(u) \in Digits
     THEN Num(IF neg THEN 0 - DigitPrefix(u, 0) ELSE DigitPrefix(u, 0))
     ELSE JsNaN

\* the test as w !== null: an empty w is parsed
ParseDim_nullOnly(w) == IF w # Null THEN parseInt(w) ELSE JsNull

\* w ? parseInt(w, 10) : null
ParseDim(w) == IF TruthyStr(w) THEN parseInt(w) ELSE JsNull

\* the test the messages describe: unset or a positive number
DimOk_positive(width) == width = JsNull \/ (width.t = "number" /\ width.v > 0)

\* width === null || !isNaN(width)
DimOk(width) == width = JsNull \/ width # JsNaN

\* the format test as !format || ...: an empty format passes
FormatOk_falsy(format) ==
  ~TruthyStr(format) \/ format = <<"w", "e", "b", "p">> \/ format = <<"a", "v", "i", "f">>

\* format === null || format === "webp" || format === "avif"
FormatOk(format) ==
  format = Null \/ format = <<"w", "e", "b", "p">> \/ format = <<"a", "v", "i", "f">>

\* the name of a format string, as the codec and the header use it
FormatName(format) ==
  CASE format = <<"w", "e", "b", "p">> -> "webp"
    [] format = <<"a", "v", "i", "f">> -> "avif"
    [] OTHER -> "other"

(***************************************************************************)
(* Images and their encodings.                                             *)
(***************************************************************************)
Magic(enc) ==
  CASE enc = "png" -> 137 [] enc = "jpeg" -> 255
    [] enc = "webp" -> 82 [] enc = "avif" -> 102 [] OTHER -> 0

EncOf(b) ==
  CASE b = 137 -> "png" [] b = 255 -> "jpeg"
    [] b = 82 -> "webp" [] b = 102 -> "avif" [] OTHER -> "none"

\* an encoded image: magic byte, width, height, pixel content, metadata flag
EncodeImage(img) == <<Magic(img.enc), img.w, img.h, img.px, img.meta>>

Decodable(bytes) == Len(bytes) = 5 /\ EncOf(bytes[1]) # "none"

DecodeImage(bytes) ==
  [enc |-> EncOf(bytes[1]), w |-> bytes[2], h |-> bytes[3],
   px |-> bytes[4], meta |-> bytes[5]]


(***************************************************************************)
(* The codec (sharp), as the loaders use it.                               *)
(***************************************************************************)
\* sharp(buffer) and sharp(): a pipeline with nothing configured; a resize
\* dimension of 0 stands for "not given"
SharpNew == [resize |-> <<0, 0>>, format |-> "none"]

\* resize(width, height) throws for a given dimension that is no positive integer
BadDim(x) == x.t # "null" /\ ~(x.t = "number" /\ x.v > 0)

ResizeThrows(width, height) == BadDim(width) \/ BadDim(height)

DimArg(x) == IF x.t = "number" THEN x.v ELSE 0

\* the call as resize(height, width)
SharpResize_swapped(p, width, height) ==
  [p EXCEPT !.resize = <<DimArg(height), DimArg(width)>>]

SharpResize(p, width, height) ==
  [p EXCEPT !.resize = <<DimArg(width), DimArg(height)>>]

\* toFormat starting the configuration again: an earlier resize is lost
SharpToFormat_fresh(p, format) == [SharpNew EXCEPT !.format = FormatName(format)]

SharpToFormat(p, format) == [p EXCEPT !.format = FormatName(format)]

\* a / b rounded to the nearest integer, at least 1
Scale(a, b) == IF (2 * a + b) \div (2 * b) < 1 THEN 1 ELSE (2 * a + b) \div (2 * b)

\* what the configured pipeline makes of a decoded image: exactly the resize
\* dimensions when both were given (fit: cover), the other one scaled to keep
\* the aspect ratio when one was given, the requested encoding or else the
\* input's own, and the metadata dropped
SharpOutput(p, img) ==
  LET rw == p.resize[1]
      rh == p.resize[2]
  IN [enc |-> IF p.format = "none" THEN img.enc ELSE p.format,
      w |-> IF rw > 0 THEN rw
            ELSE IF rh > 0 THEN Scale(img.w * rh, img.h) ELSE img.w,
      h |-> IF rh > 0 THEN rh
            ELSE IF rw > 0 THEN Scale(img.h * rw, img.w) ELSE img.h,
      px |-> img.px,
      meta |-> 0]

\* toBuffer() / the piped pipeline at the end of its input
SharpRun(p, bytes) ==
  IF Decodable(bytes)
  THEN [ok |-> TRUE, bytes |-> EncodeImage(SharpOutput(p, DecodeImage(bytes)))]
  ELSE [ok |-> FALSE, bytes |-> <<>>]

(***************************************************************************)
(* The file system under the working directory.  A path is a sequence of   *)
(* segments, a segment a sequence of tokens.                               *)
(***************************************************************************)
CatImage == [enc |-> "png", w |-> 4, h |-> 3, px |-> 7, meta |-> 1]
PicImage == [enc |-> "jpeg", w |-> 2, h |-> 2, px |-> 9, meta |-> 1]

Dirs == {<<>>, << <<"public">> >>, << <<"public">>, <<"dir">> >>}

Files ==
  { << <<"public">>, <<"cat">> >>, << <<"public">>, <<"pic">> >>,
    << <<"public">>, <<"bad">> >>, << <<"secret">> >> }

FileBytes(path) ==
  CASE path = << <<"public">>, <<"cat">> >> -> EncodeImage(CatImage)
    [] path = << <<"public">>, <<"pic">> >> -> EncodeImage(PicImage)
    [] path = << <<"public">>, <<"bad">> >> -> <<66, 65, 68>>
    [] path = << <<"secret">> >> -> <<115, 51, 99, 114>>
    [] OTHER -> <<>>

\* a path that names nothing
NoPath == << <<"#none">> >>

\* the segments of a path string: the runs of tokens between "/"
RECURSIVE SplitFrom(_, _, _)
SplitFrom(s, cur, acc) ==
  IF s = <<>> THEN Append(acc, cur)
  ELSE IF Head(s) = "/" THEN SplitFrom(Tail(s), <<>>, Append(acc, cur))
  ELSE SplitFrom(Tail(s), Append(cur, Head(s)), acc)

Split(s) == SplitFrom(s, <<>>, <<>>)

Front(q) == SubSeq(q, 1, Len(q) - 1)

\* the operating system's walk of a relative path from the working directory:
\* every step but the last starts in an existing directory
RECURSIVE Walk(_, _)
Walk(segs, cur) ==
  IF segs = <<>> THEN cur
  ELSE IF cur \notin Dirs THEN NoPath
  ELSE IF Head(segs) = <<>> \/ Head(segs) = <<".">> THEN Walk(Tail(segs), cur)
  ELSE IF Head(segs) = <<".", ".">>
       THEN IF cur = <<>> THEN NoPath ELSE Walk(Tail(segs), Front(cur))
  ELSE Walk(Tail(segs), Append(cur, Head(segs)))

\* path.join's normalisation: purely textual, ".." removes the segment before
RECURSIVE Normalize(_, _)
Normalize(segs, cur) ==
  IF segs = <<>> THEN cur
  ELSE IF cur = NoPath THEN NoPath
  ELSE IF Head(segs) = <<>> \/ Head(segs) = <<".">> THEN Normalize(Tail(segs), cur)
  ELSE IF Head(segs) = <<".", ".">>
       THEN IF cur = <<>> THEN NoPath ELSE Normalize(Tail(segs), Front(cur))
  ELSE Normalize(Tail(segs), Append(cur, Head(segs)))

\* "./public" + src, as the operating system resolves it
BufferedPath(src) == Walk(Split(<<".", "/", "public">> \o src), <<>>)

\* path.join(process.cwd(), "public", src), as the operating system resolves it
StreamPath(src) == Walk(Normalize(Split(<<"public", "/">> \o src), <<>>), <<>>)

Readable(path) == path \in Files

(***************************************************************************)
(* The requests the model sends.                                           *)
(***************************************************************************)
NumStr(n) == <<CHOOSE c \in Digits : DigitVal(c) = n>>

\* values of w and of h: absent, empty, the decimal strings 0..MaxDim, a
\* negative number, digits followed by a letter, a letter alone
DimStrings ==
  {Null, <<>>, <<"-", "1">>, <<"1", "2", "a">>, <<"a">>}
    \cup {NumStr(n) : n \in 0..MaxDim}

FormatStrings ==
  {Null, <<>>, <<"w", "e", "b", "p">>, <<"a", "v", "i", "f">>,
   <<"j", "p", "e", "g">>, <<"W", "E", "B", "P">>}

SrcStrings ==
  {Null, <<>>, <<"/", "cat">>, <<"/", "pic">>, <<"/", "bad">>, <<"/", "dir">>,
   <<"/", "nope">>, <<"cat">>, <<"/", ".", ".", "/", "secret">>}

Endpoints == {"img", "img-stream"}

Requests ==
  [endpoint : Endpoints, src : SrcStrings, w : DimStrings, h : DimStrings,
   format : FormatStrings]

(***************************************************************************)
(* State.                                                                  *)
(***************************************************************************)
VARIABLES
  pc,       \* where the loader is: "idle" before a request, "done" once returned
  req,      \* the request being served
  local,    \* the loader's locals: width, height, beforeBuffers, buffer,
            \* pipeline, processedBuffer, afterBuffers
  resp,     \* the response the loader returned
  fstream,  \* the file read stream of the streaming loader
  xform,    \* the piped codec stream of the streaming loader
  log,      \* the calls made so far for this request, in order
  proc,     \* process-wide state: whether --expose_gc was set
  parked,   \* the loader invocation that is suspended at an await while
            \* this one runs: its pc, req, local, resp, fstream, xform, log
  ui        \* the demo page: its React state, the ref that holds the
            \* promise of the image's dimensions, the image element and the
            \* fetchImageStats calls in flight

vars == <<pc, req, local, resp, fstream, xform, log, proc, parked, ui>>

NoReq == [endpoint |-> "none", src |-> Null, w |-> Null, h |-> Null, format |-> Null]

NoLocal ==
  [width |-> JsNull, height |-> JsNull, before |-> 0, buffer |-> <<>>,
   pipeline |-> SharpNew, processed |-> <<>>, after |-> 0]

\* status 0: no response yet.  body: "complete", "open" (a stream that is
\* still delivering), "errored" (a stream that failed)
NoResp ==
  [status |-> 0, contentType |-> <<>>, hasMemory |-> FALSE, memory |-> <<>>,
   text |-> <<>>, bytes |-> <<>>, body |-> "complete"]

\* state: "none", "opening", "open", "ended", "errored";  to: where its data
\* goes, "nowhere", "body" (Readable.toWeb) or "pipeline" (pipe)
NoStream == [state |-> "none", path |-> NoPath, pos |-> 0, to |-> "nowhere"]

\* state: "none", "collecting", "emitting", "ended", "errored"
NoXform == [state |-> "none", input |-> <<>>, output |-> <<>>, pos |-> 0]

\* an invocation that has not been called yet
IdleCtx ==
  [pc |-> "idle", req |-> NoReq, local |-> NoLocal, resp |-> NoResp,
   fstream |-> NoStream, xform |-> NoXform, log |-> <<>>]

\* the invocation that is running
Ctx ==
  [pc |-> pc, req |-> req, local |-> local, resp |-> resp,
   fstream |-> fstream, xform |-> xform, log |-> log]

\* the page's form values before any input: src "/cat.png", no width, no
\* height, format "original", endpoint "img"
Original == <<"original">>

defaultParams ==
  [src |-> <<"/", "cat">>, width |-> JsNull, height |-> JsNull,
   format |-> Original, endpoint |-> "img"]

\* the page before it is mounted: useState's initial values, an empty ref
NoUi ==
  [mounted |-> FALSE, imageParams |-> defaultParams, currentUrl |-> NoReq,
   imageLoading |-> FALSE, errorMessage |-> Null, imageHistory |-> <<>>,
   imageDimensions |-> 0, promises |-> <<>>, loads |-> <<>>,
   img |-> "none", effect |-> FALSE]

Init ==
  /\ pc = "idle"
  /\ req = NoReq
  /\ local = NoLocal
  /\ resp = NoResp
  /\ fstream = NoStream
  /\ xform = NoXform
  /\ log = <<>>
  /\ proc = [exposeGc |-> FALSE]
  /\ parked = IdleCtx
  /\ ui = NoUi

(***************************************************************************)
(* Responses.                                                              *)
(***************************************************************************)
\* new Response(message, { status }): a text body, no header of the loader's
TextResponse(status, text) ==
  [NoResp EXCEPT !.status = status, !.text = text]

\* invariantResponse throws the response and the catch block returns it
Throw400(message) == TextResponse(400, <<message>>)

\* the inner catch left out: the failed read reaches the outer catch
NotFound_outerCatch(src) ==
  TextResponse(500, <<"Error processing image: ", "Error: ENOENT">>)

NotFound(src) == TextResponse(404, <<"Image file not found: ">> \o src)

ProcessingError(error) == TextResponse(500, <<"Error processing image: ", error>>)

\* the subtraction the other way round
MemoryDelta_reversed(after, before) == before - after

\* afterBuffers - beforeBuffers
MemoryDelta(after, before) == after - before

\* the decimal digits of a natural number
RECURSIVE NatString(_)
NatString(n) ==
  IF n < 10 THEN <<CHOOSE c \in Digits : DigitVal(c) = n>>
  ELSE NatString(n \div 10) \o <<CHOOSE c \in Digits : DigitVal(c) = n % 10>>

\* String(d) of an integer: a "-" before the digits of a negative one
NumberToString(d) == IF d < 0 THEN <<"-">> \o NatString(0 - d) ELSE NatString(d)

\* `${afterBuffers - beforeBuffers} bytes`
MemoryHeader(after, before) ==
  NumberToString(MemoryDelta(after, before)) \o <<" ", "b", "y", "t", "e", "s">>

(***************************************************************************)
(* The steps both loaders share: the snapshot and the validation.          *)
(***************************************************************************)
\* a request arrives; the streaming loader starts with clearMemory()
Receive ==
  /\ pc = "idle"
  /\ \E r \in Requests :
       /\ req' = r
       /\ pc' = IF r.endpoint = "img-stream" THEN "clearMemory" ELSE "snapshot"
  /\ UNCHANGED <<local, resp, fstream, xform, log, proc, parked, ui>>

\* clearMemory(): sets the --expose_gc flag of the process and runs gc()
ClearMemory ==
  /\ pc = "clearMemory"
  /\ proc' = [proc EXCEPT !.exposeGc = TRUE]
  /\ log' = Append(log, "gc")
  /\ pc' = "snapshot"
  /\ UNCHANGED <<req, local, resp, fstream, xform, parked, ui>>

\* the parameters are read first, then the snapshot is taken
SnapshotBefore_afterParse ==
  /\ pc = "snapshot"
  /\ \E m \in 0..MaxMem : local' = [local EXCEPT !.before = m]
  /\ log' = log \o <<"parse", "memoryUsage">>
  /\ pc' = "validateSrc"
  /\ UNCHANGED <<req, resp, fstream, xform, proc, parked, ui>>

\* beforeBuffers = arrayBuffers + heapUsed, then new URL(request.url) and
\* params.get of src, w, h and format
SnapshotBefore ==
  /\ pc = "snapshot"
  /\ \E m \in 0..MaxMem : local' = [local EXCEPT !.before = m]
  /\ log' = log \o <<"memoryUsage", "parse">>
  /\ pc' = "validateSrc"
  /\ UNCHANGED <<req, resp, fstream, xform, proc, parked, ui>>

\* the source test as src !== null: an empty src passes
ValidateSrc_nullOnly ==
  /\ pc = "validateSrc"
  /\ IF req.src # Null
     THEN pc' = "validateDims" /\ resp' = resp
     ELSE pc' = "done" /\ resp' = Throw400("Source image URL is required")
  /\ UNCHANGED <<req, local, fstream, xform, log, proc, parked, ui>>

ValidateSrc ==
  /\ pc = "validateSrc"
  /\ IF TruthyStr(req.src)
     THEN pc' = "validateDims" /\ resp' = resp
     ELSE pc' = "done" /\ resp' = Throw400("Source image URL is required")
  /\ UNCHANGED <<req, local, fstream, xform, log, proc, parked, ui>>

ValidateDims ==
  /\ pc = "validateDims"
  /\ LET width == ParseDim(req.w)
         height == ParseDim(req.h)
     IN /\ local' = [local EXCEPT !.width = width, !.height = height]
        /\ IF ~DimOk(width)
           THEN /\ pc' = "done"
                /\ resp' = Throw400("Width must be unset or a positive number")
           ELSE IF ~DimOk(height)
           THEN /\ pc' = "done"
                /\ resp' = Throw400("Height must be unset or a positive number")
           ELSE pc' = "validateFormat" /\ resp' = resp
  /\ UNCHANGED <<req, fstream, xform, log, proc, parked, ui>>

ValidateFormat ==
  /\ pc = "validateFormat"
  /\ IF FormatOk(req.format)
     THEN pc' = "resolve" /\ resp' = resp
     ELSE pc' = "done" /\ resp' = Throw400("Format must be one of: webp, avif")
  /\ UNCHANGED <<req, local, fstream, xform, log, proc, parked, ui>>

\* the passthrough test with the sense of the dimension tests turned around
IsPassthrough_dimsSet ==
  ~TruthyStr(req.format) /\ Truthy(local.width) /\ Truthy(local.height)

\* !format && !width && !height
IsPassthrough ==
  ~TruthyStr(req.format) /\ ~Truthy(local.width) /\ ~Truthy(local.height)

\* the gate as width || height
ResizeGate_either == Truthy(local.width) \/ Truthy(local.height)

\* width && height
ResizeGate == Truthy(local.width) /\ Truthy(local.height)

(***************************************************************************)
(* The buffered loader.                                                    *)
(***************************************************************************)
\* the read moved above the validation of format
ReadSource_beforeFormat ==
  /\ pc = "validateFormat"
  /\ req.endpoint = "img"
  /\ log' = Append(log, "readFileSync")
  /\ IF Readable(BufferedPath(req.src))
     THEN /\ local' = [local EXCEPT !.buffer = FileBytes(BufferedPath(req.src))]
          /\ pc' = "branch"
          /\ resp' = resp
     ELSE /\ local' = local
          /\ pc' = "done"
          /\ resp' = NotFound(req.src)
  /\ UNCHANGED <<req, fstream, xform, proc, parked, ui>>

\* readFileSync("./public" + src); any failure is answered with 404
ReadSource ==
  /\ pc = "resolve"
  /\ req.endpoint = "img"
  /\ log' = Append(log, "readFileSync")
  /\ LET path == BufferedPath(req.src)
     IN IF Readable(path)
        THEN /\ local' = [local EXCEPT !.buffer = FileBytes(path)]
             /\ pc' = "branch"
             /\ resp' = resp
        ELSE /\ local' = local
             /\ pc' = "done"
             /\ resp' = NotFound(req.src)
  /\ UNCHANGED <<req, fstream, xform, proc, parked, ui>>

\* the content type taken from the first byte of the file
PassthroughBuffered_sniffed ==
  /\ pc = "branch"
  /\ req.endpoint = "img"
  /\ IsPassthrough
  /\ \E m \in 0..MaxMem :
       /\ local' = [local EXCEPT !.after = m]
       /\ resp' = [NoResp EXCEPT !.status = 200,
                                 !.contentType = <<"image/", EncOf(local.buffer[1])>>,
                                 !.hasMemory = TRUE,
                                 !.memory = MemoryHeader(m, local.before),
                                 !.bytes = local.buffer]
  /\ log' = Append(log, "memoryUsage")
  /\ pc' = "done"
  /\ UNCHANGED <<req, fstream, xform, proc, parked, ui>>

\* !format && !width && !height: the buffer is the body, declared image/png
PassthroughBuffered ==
  /\ pc = "branch"
  /\ req.endpoint = "img"
  /\ IsPassthrough
  /\ \E m \in 0..MaxMem :
       /\ local' = [local EXCEPT !.after = m]
       /\ resp' = [NoResp EXCEPT !.status = 200,
                                 !.contentType = <<"image/", "png">>,
                                 !.hasMemory = TRUE,
                                 !.memory = MemoryHeader(m, local.before),
                                 !.bytes = local.buffer]
  /\ log' = Append(log, "memoryUsage")
  /\ pc' = "done"
  /\ UNCHANGED <<req, fstream, xform, proc, parked, ui>>

\* sharp(buffer), then resize when width && height, then toFormat when format
ConfigureBuffered ==
  /\ pc = "branch"
  /\ req.endpoint = "img"
  /\ ~IsPassthrough
  /\ LET throws == ResizeGate /\ ResizeThrows(local.width, local.height)
         p1 == IF ResizeGate
               THEN SharpResize(SharpNew, local.width, local.height)
               ELSE SharpNew
         p2 == IF TruthyStr(req.format) THEN SharpToFormat(p1, req.format) ELSE p1
     IN /\ log' = log \o <<"sharp">>
                      \o (IF ResizeGate THEN <<"resize">> ELSE <<>>)
                      \o (IF ~throws /\ TruthyStr(req.format)
                          THEN <<"toFormat">> ELSE <<>>)
        /\ IF throws
           THEN /\ pc' = "done"
                /\ resp' = ProcessingError("Error: Expected positive integer")
                /\ local' = local
           ELSE /\ pc' = "toBuffer"
                /\ resp' = resp
                /\ local' = [local EXCEPT !.pipeline = p2]
  /\ UNCHANGED <<req, fstream, xform, proc, parked, ui>>

\* await pipeline.toBuffer(): decode, resize, encode; a failure is a 500
ToBuffer ==
  /\ pc = "toBuffer"
  /\ log' = Append(log, "toBuffer")
  /\ LET r == SharpRun(local.pipeline, local.buffer)
     IN IF r.ok
        THEN /\ local' = [local EXCEPT !.processed = r.bytes]
             /\ pc' = "respond"
             /\ resp' = resp
        ELSE /\ local' = local
             /\ pc' = "done"
             /\ resp' = ProcessingError("Error: unsupported image format")
  /\ UNCHANGED <<req, fstream, xform, proc, parked, ui>>

\* the transform response of the buffered loader sets no Content-Type
RespondBuffered ==
  /\ pc = "respond"
  /\ req.endpoint = "img"
  /\ \E m \in 0..MaxMem :
       /\ local' = [local EXCEPT !.after = m]
       /\ resp' = [NoResp EXCEPT !.status = 200,
                                 !.hasMemory = TRUE,
                                 !.memory = MemoryHeader(m, local.before),
                                 !.bytes = local.processed]
  /\ log' = Append(log, "memoryUsage")
  /\ pc' = "done"
  /\ UNCHANGED <<req, fstream, xform, proc, parked, ui>>

(***************************************************************************)
(* The streaming loader.                                                   *)
(***************************************************************************)
\* the stream made as soon as the parameters are read, before they are
\* validated
OpenSource_beforeValidation ==
  /\ pc = "validateSrc"
  /\ req.endpoint = "img-stream"
  /\ log' = Append(log, "createReadStream")
  /\ fstream' = [NoStream EXCEPT !.state = "opening",
                                 !.path = StreamPath(req.src)]
  /\ pc' = "branch"
  /\ UNCHANGED <<req, local, resp, xform, proc, parked, ui>>

\* createReadStream(path.join(cwd, "public", src)) returns a stream at once;
\* the file is opened later, so nothing is thrown here for a missing file
OpenSource ==
  /\ pc = "resolve"
  /\ req.endpoint = "img-stream"
  /\ log' = Append(log, "createReadStream")
  /\ fstream' = [NoStream EXCEPT !.state = "opening",
                                 !.path = StreamPath(req.src)]
  /\ pc' = "branch"
  /\ UNCHANGED <<req, local, resp, xform, proc, parked, ui>>

\* the body is Readable.toWeb(stream): the file's chunks, as they are read
PassthroughStream ==
  /\ pc = "branch"
  /\ req.endpoint = "img-stream"
  /\ IsPassthrough
  /\ \E m \in 0..MaxMem :
       /\ local' = [local EXCEPT !.after = m]
       /\ resp' = [NoResp EXCEPT !.status = 200,
                                 !.contentType = <<"image/", "png">>,
                                 !.hasMemory = TRUE,
                                 !.memory = MemoryHeader(m, local.before),
                                 !.body = "open"]
  /\ fstream' = [fstream EXCEPT !.to = "body"]
  /\ log' = Append(log, "memoryUsage")
  /\ pc' = "done"
  /\ UNCHANGED <<req, xform, proc, parked, ui>>

\* sharp(), then toFormat when format, then resize when width && height, then
\* stream.pipe(pipeline)
ConfigureStream ==
  /\ pc = "branch"
  /\ req.endpoint = "img-stream"
  /\ ~IsPassthrough
  /\ LET throws == ResizeGate /\ ResizeThrows(local.width, local.height)
         p1 == IF TruthyStr(req.format)
               THEN SharpToFormat(SharpNew, req.format)
               ELSE SharpNew
         p2 == IF ResizeGate
               THEN SharpResize(p1, local.width, local.height)
               ELSE p1
     IN /\ log' = log \o <<"sharp">>
                      \o (IF TruthyStr(req.format) THEN <<"toFormat">> ELSE <<>>)
                      \o (IF ResizeGate THEN <<"resize">> ELSE <<>>)
                      \o (IF ~throws THEN <<"pipe">> ELSE <<>>)
        /\ IF throws
           THEN /\ pc' = "done"
                /\ resp' = ProcessingError("Error: Expected positive integer")
                /\ local' = local
                /\ fstream' = fstream
                /\ xform' = xform
           ELSE /\ pc' = "respond"
                /\ resp' = resp
                /\ local' = [local EXCEPT !.pipeline = p2]
                /\ fstream' = [fstream EXCEPT !.to = "pipeline"]
                /\ xform' = [NoXform EXCEPT !.state = "collecting"]
  /\ UNCHANGED <<req, proc, parked, ui>>

\* the body is Readable.toWeb(resStream); Content-Type follows format
RespondStream ==
  /\ pc = "respond"
  /\ req.endpoint = "img-stream"
  /\ \E m \in 0..MaxMem :
       /\ local' = [local EXCEPT !.after = m]
       /\ resp' = [NoResp EXCEPT !.status = 200,
                                 !.contentType =
                                    IF TruthyStr(req.format)
                                    THEN <<"image/", FormatName(req.format)>>
                                    ELSE <<"image/", "png">>,
                                 !.hasMemory = TRUE,
                                 !.memory = MemoryHeader(m, local.before),
                                 !.body = "open"]
  /\ log' = Append(log, "memoryUsage")
  /\ pc' = "done"
  /\ UNCHANGED <<req, fstream, xform, proc, parked, ui>>

(***************************************************************************)
(* What the streams do once the streaming loader has returned.             *)
(***************************************************************************)
\* the file is opened; a failure is the stream's 'error' event, which a web
\* stream made from it passes on and pipe() does not
FileOpen ==
  /\ pc = "done"
  /\ fstream.state = "opening"
  /\ IF Readable(fstream.path)
     THEN /\ fstream' = [fstream EXCEPT !.state = "open"]
          /\ resp' = resp
     ELSE /\ fstream' = [fstream EXCEPT !.state = "errored"]
          /\ resp' = IF fstream.to = "body"
                     THEN [resp EXCEPT !.body = "errored"]
                     ELSE resp
  /\ UNCHANGED <<pc, req, local, xform, log, proc, parked, ui>>

\* one chunk goes from the file to the body or into the codec
FileRead ==
  /\ fstream.state = "open"
  /\ fstream.to # "nowhere"
  /\ fstream.pos < Len(FileBytes(fstream.path))
  /\ LET bytes == FileBytes(fstream.path)
         last == IF fstream.pos + ChunkSize < Len(bytes)
                 THEN fstream.pos + ChunkSize ELSE Len(bytes)
         chunk == SubSeq(bytes, fstream.pos + 1, last)
     IN /\ fstream' = [fstream EXCEPT !.pos = last]
        /\ IF fstream.to = "body"
           THEN /\ resp' = [resp EXCEPT !.bytes = @ \o chunk]
                /\ xform' = xform
           ELSE /\ resp' = resp
                /\ xform' = [xform EXCEPT !.input = @ \o chunk]
  /\ UNCHANGED <<pc, req, local, log, proc, parked, ui>>

\* the file is read to its end and closed; a body fed by it is complete
FileEnd ==
  /\ fstream.state = "open"
  /\ fstream.to # "nowhere"
  /\ fstream.pos = Len(FileBytes(fstream.path))
  /\ fstream' = [fstream EXCEPT !.state = "ended"]
  /\ resp' = IF fstream.to = "body" THEN [resp EXCEPT !.body = "complete"] ELSE resp
  /\ UNCHANGED <<pc, req, local, xform, log, proc, parked, ui>>

\* at the end of its input the codec decodes, resizes and encodes; a failure
\* is the error of the body
XformFlush ==
  /\ xform.state = "collecting"
  /\ fstream.state = "ended"
  /\ log' = Append(log, "flush")
  /\ LET r == SharpRun(local.pipeline, xform.input)
     IN IF r.ok
        THEN /\ xform' = [xform EXCEPT !.state = "emitting", !.output = r.bytes]
             /\ resp' = resp
        ELSE /\ xform' = [xform EXCEPT !.state = "errored"]
             /\ resp' = [resp EXCEPT !.body = "errored"]
  /\ UNCHANGED <<pc, req, local, fstream, proc, parked, ui>>

XformEmit ==
  /\ xform.state = "emitting"
  /\ xform.pos < Len(xform.output)
  /\ LET last == IF xform.pos + ChunkSize < Len(xform.output)
                 THEN xform.pos + ChunkSize ELSE Len(xform.output)
     IN /\ xform' = [xform EXCEPT !.pos = last]
        /\ resp' = [resp EXCEPT !.bytes = @ \o SubSeq(xform.output, xform.pos + 1, last)]
  /\ UNCHANGED <<pc, req, local, fstream, log, proc, parked, ui>>

XformEnd ==
  /\ xform.state = "emitting"
  /\ xform.pos = Len(xform.output)
  /\ xform' = [xform EXCEPT !.state = "ended"]
  /\ resp' = [resp EXCEPT !.body = "complete"]
  /\ UNCHANGED <<pc, req, local, fstream, log, proc, parked, ui>>

\* the client disconnects while the body streams: the web stream's cancel
\* destroys the Node stream it was made from.  For a passthrough that is the
\* file stream.  For a transform it is the codec stream; pipe() answers the
\* codec's close by unpiping the file stream, which it leaves as it is
ClientCancel ==
  /\ pc = "done"
  /\ req.endpoint = "img-stream"
  /\ resp.status = 200
  /\ resp.body = "open"
  /\ resp' = [resp EXCEPT !.body = "cancelled"]
  /\ IF fstream.to = "body"
     THEN /\ fstream' = [fstream EXCEPT !.state = "destroyed"]
          /\ xform' = xform
     ELSE /\ fstream' = [fstream EXCEPT !.to = "nowhere"]
          /\ xform' = [xform EXCEPT !.state = "destroyed"]
  /\ UNCHANGED <<pc, req, local, log, proc, parked, ui>>

\* the stream kept in a variable outside the loader: it outlives the request
Finish_keepStream ==
  /\ pc = "done"
  /\ pc' = "idle"
  /\ req' = NoReq
  /\ local' = NoLocal
  /\ resp' = NoResp
  /\ xform' = NoXform
  /\ log' = <<>>
  /\ UNCHANGED <<fstream, proc, parked, ui>>

\* the request is over; the next one starts from fresh locals.  The flag set
\* by clearMemory stays: it belongs to the process
Finish ==
  /\ pc = "done"
  /\ pc' = "idle"
  /\ req' = NoReq
  /\ local' = NoLocal
  /\ resp' = NoResp
  /\ fstream' = NoStream
  /\ xform' = NoXform
  /\ log' = <<>>
  /\ UNCHANGED <<proc, parked, ui>>

(***************************************************************************)
(* Two invocations in flight.  JavaScript runs one of them at a time; at   *)
(* an await (after the read or the stream's creation, at toBuffer) and     *)
(* once it has returned, the other one may run.  Each invocation has its   *)
(* own locals, response and streams.                                       *)
(***************************************************************************)
SwitchPoints == {"idle", "branch", "toBuffer", "done"}

\* the locals declared outside the loader: both invocations use the same ones
Switch_sharedLocals ==
  /\ pc \in SwitchPoints
  /\ parked' = [Ctx EXCEPT !.local = parked.local]
  /\ pc' = parked.pc
  /\ req' = parked.req
  /\ resp' = parked.resp
  /\ fstream' = parked.fstream
  /\ xform' = parked.xform
  /\ log' = parked.log
  /\ UNCHANGED <<local, proc, ui>>

Switch ==
  /\ pc \in SwitchPoints
  /\ parked' = Ctx
  /\ pc' = parked.pc
  /\ req' = parked.req
  /\ local' = parked.local
  /\ resp' = parked.resp
  /\ fstream' = parked.fstream
  /\ xform' = parked.xform
  /\ log' = parked.log
  /\ UNCHANGED <<proc, ui>>

\* the requests sent while another one is in flight
ConcurrentRequests ==
  { [endpoint |-> "img", src |-> <<"/", "pic">>, w |-> Null, h |-> Null,
     format |-> Null],
    [endpoint |-> "img", src |-> <<"/", "cat">>, w |-> NumStr(2), h |-> NumStr(1),
     format |-> <<"w", "e", "b", "p">>],
    [endpoint |-> "img-stream", src |-> <<"/", "cat">>, w |-> Null, h |-> Null,
     format |-> <<"a", "v", "i", "f">>],
    [endpoint |-> "img-stream", src |-> <<"/", "pic">>, w |-> Null, h |-> Null,
     format |-> Null] }

ReceiveConcurrent ==
  /\ pc = "idle"
  /\ \E r \in ConcurrentRequests :
       /\ req' = r
       /\ pc' = IF r.endpoint = "img-stream" THEN "clearMemory" ELSE "snapshot"
  /\ UNCHANGED <<local, resp, fstream, xform, log, proc, parked, ui>>

Next ==
  \/ Receive
  \/ ClearMemory
  \/ SnapshotBefore
  \/ ValidateSrc
  \/ ValidateDims
  \/ ValidateFormat
  \/ ReadSource
  \/ PassthroughBuffered
  \/ ConfigureBuffered
  \/ ToBuffer
  \/ RespondBuffered
  \/ OpenSource
  \/ PassthroughStream
  \/ ConfigureStream
  \/ RespondStream
  \/ FileOpen
  \/ FileRead
  \/ FileEnd
  \/ XformFlush
  \/ XformEmit
  \/ XformEnd
  \/ ClientCancel
  \/ Finish

Spec == Init /\ [][Next]_vars

NextConcurrent ==
  \/ ReceiveConcurrent
  \/ Switch
  \/ ClearMemory
  \/ SnapshotBefore
  \/ ValidateSrc
  \/ ValidateDims
  \/ ValidateFormat
  \/ ReadSource
  \/ PassthroughBuffered
  \/ ConfigureBuffered
  \/ ToBuffer
  \/ RespondBuffered
  \/ OpenSource
  \/ PassthroughStream
  \/ ConfigureStream
  \/ RespondStream
  \/ FileOpen
  \/ FileRead
  \/ FileEnd
  \/ XformFlush
  \/ XformEmit
  \/ XformEnd
  \/ ClientCancel
  \/ Finish

SpecConcurrent == Init /\ [][NextConcurrent]_vars

(***************************************************************************)
(* The loaders as functions of the request: the status, content type and   *)
(* body each loader arrives at when nothing interrupts it.                 *)
(***************************************************************************)
Outcome(status, contentType, text, bytes, body) ==
  [status |-> status, contentType |-> contentType, text |-> text,
   bytes |-> bytes, body |-> body]

TextOutcome(r) == Outcome(r.status, <<>>, r.text, <<>>, "complete")

\* the 400 the validation ends with, or NoResp when the request passes
ValidationFailure(r) ==
  IF ~TruthyStr(r.src) THEN Throw400("Source image URL is required")
  ELSE IF ~DimOk(ParseDim(r.w))
  THEN Throw400("Width must be unset or a positive number")
  ELSE IF ~DimOk(ParseDim(r.h))
  THEN Throw400("Height must be unset or a positive number")
  ELSE IF ~FormatOk(r.format) THEN Throw400("Format must be one of: webp, avif")
  ELSE NoResp

PassthroughOf(r) ==
  ~TruthyStr(r.format) /\ ~Truthy(ParseDim(r.w)) /\ ~Truthy(ParseDim(r.h))

ResizeGateOf(r) == Truthy(ParseDim(r.w)) /\ Truthy(ParseDim(r.h))

PipelineOf(r) ==
  LET p == IF ResizeGateOf(r)
           THEN SharpResize(SharpNew, ParseDim(r.w), ParseDim(r.h))
           ELSE SharpNew
  IN IF TruthyStr(r.format) THEN SharpToFormat(p, r.format) ELSE p

ResizeError ==
  TextOutcome(ProcessingError("Error: Expected positive integer"))

BufferedOutcome(r) ==
  LET path == BufferedPath(r.src)
      run == SharpRun(PipelineOf(r), FileBytes(path))
  IN IF ValidationFailure(r) # NoResp THEN TextOutcome(ValidationFailure(r))
     ELSE IF ~Readable(path) THEN TextOutcome(NotFound(r.src))
     ELSE IF PassthroughOf(r)
     THEN Outcome(200, <<"image/", "png">>, <<>>, FileBytes(path), "complete")
     ELSE IF ResizeGateOf(r) /\ ResizeThrows(ParseDim(r.w), ParseDim(r.h))
     THEN ResizeError
     ELSE IF ~run.ok
     THEN TextOutcome(ProcessingError("Error: unsupported image format"))
     ELSE Outcome(200, <<>>, <<>>, run.bytes, "complete")

\* a body fed by a file that cannot be opened fails when it is the file's own
\* web stream, and stays open for ever when it is the piped codec's
StreamOutcome(r) ==
  LET path == StreamPath(r.src)
      run == SharpRun(PipelineOf(r), FileBytes(path))
      type == IF TruthyStr(r.format)
              THEN <<"image/", FormatName(r.format)>>
              ELSE <<"image/", "png">>
  IN IF ValidationFailure(r) # NoResp THEN TextOutcome(ValidationFailure(r))
     ELSE IF PassthroughOf(r)
     THEN IF Readable(path)
          THEN Outcome(200, <<"image/", "png">>, <<>>, FileBytes(path), "complete")
          ELSE Outcome(200, <<"image/", "png">>, <<>>, <<>>, "errored")
     ELSE IF ResizeGateOf(r) /\ ResizeThrows(ParseDim(r.w), ParseDim(r.h))
     THEN ResizeError
     ELSE IF ~Readable(path) THEN Outcome(200, type, <<>>, <<>>, "open")
     ELSE IF ~run.ok THEN Outcome(200, type, <<>>, <<>>, "errored")
     ELSE Outcome(200, type, <<>>, run.bytes, "complete")

(***************************************************************************)
(* Vocabulary of the properties.                                           *)
(***************************************************************************)
Called(e) == \E i \in 1..Len(log) : log[i] = e

CodecCalls == {"sharp", "resize", "toFormat", "toBuffer", "pipe", "flush"}

IOCalls == CodecCalls \cup {"readFileSync", "createReadStream"}

Buffered == req.endpoint = "img"

Streaming == req.endpoint = "img-stream"

\* the file the request's src resolves to on its endpoint
SourcePath == IF Buffered THEN BufferedPath(req.src) ELSE StreamPath(req.src)

SourceBytes == FileBytes(SourcePath)

PassesValidation ==
  /\ TruthyStr(req.src)
  /\ DimOk(ParseDim(req.w))
  /\ DimOk(ParseDim(req.h))
  /\ FormatOk(req.format)

\* the loader has returned a response
Returned == pc = "done"

\* an optional sign, then digits and nothing else
IsIntString(s) ==
  LET u == IF s # <<>> /\ Head(s) \in {"-", "+"} THEN Tail(s) ELSE s
  IN u # <<>> /\ \A i \in 1..Len(u) : u[i] \in Digits

\* a parameter given with a value
Given(s) == s # Null /\ s # <<>>

Webp == <<"w", "e", "b", "p">>

Avif == <<"a", "v", "i", "f">>

ImagePng == <<"image/", "png">>

OutImage == DecodeImage(resp.bytes)

SourceImage == DecodeImage(SourceBytes)

\* the bytes delivered so far are the beginning of q
IsPrefix(q) == Len(resp.bytes) <= Len(q) /\ resp.bytes = SubSeq(q, 1, Len(resp.bytes))

(***************************************************************************)
(* C1  Passthrough law.  On both endpoints, a request whose src names an   *)
(* existing file and that has no w, no h and no format is answered with    *)
(* 200, its body is the file's bytes exactly (a streamed body delivers a   *)
(* beginning of them until it is complete, and never fails), and no codec  *)
(* call is made.                                                           *)
(***************************************************************************)
C1_Passthrough ==
  (/\ Returned
   /\ TruthyStr(req.src)
   /\ req.w = Null /\ req.h = Null /\ req.format = Null
   /\ Readable(SourcePath))
  => /\ resp.status = 200
     /\ resp.body # "errored"
     /\ IsPrefix(SourceBytes)
     /\ (resp.body = "complete" => resp.bytes = SourceBytes)
     /\ \A e \in CodecCalls : ~Called(e)

C1_Witness ==
  /\ Returned /\ Streaming
  /\ req.w = Null /\ req.h = Null /\ req.format = Null
  /\ req.src = <<"/", "pic">>
  /\ resp.status = 200 /\ resp.body = "complete"
  /\ resp.bytes = EncodeImage(PicImage)

(***************************************************************************)
(* C2  Declared content type.  On both endpoints, a 200 response to a      *)
(* request with format webp or avif and no w/h carries Content-Type        *)
(* image/<format>, and a 200 response of the transform path to a request   *)
(* without format carries Content-Type image/png.                          *)
(***************************************************************************)
C2_ContentType ==
  (Returned /\ resp.status = 200)
  => /\ (req.format \in {Webp, Avif} /\ req.w = Null /\ req.h = Null)
          => resp.contentType = <<"image/", FormatName(req.format)>>
     /\ (req.format = Null /\ Called("sharp")) => resp.contentType = ImagePng

(***************************************************************************)
(* C3  Source not found, buffered.  A validated request to the buffered    *)
(* endpoint whose src, joined to the root, is no readable file is answered *)
(* with 404 and the body "Image file not found: <src>", and makes no codec *)
(* call.                                                                   *)
(***************************************************************************)
C3_BufferedNotFound ==
  (Returned /\ Buffered /\ PassesValidation /\ ~Readable(BufferedPath(req.src)))
  => /\ resp.status = 404
     /\ resp.text = <<"Image file not found: ">> \o req.src
     /\ \A e \in CodecCalls : ~Called(e)

C3_Witness ==
  /\ Returned /\ Buffered
  /\ req.src = <<"/", "nope">> /\ req.format = Webp
  /\ resp.status = 404
  /\ resp.text = <<"Image file not found: ", "/", "nope">>
  /\ Called("readFileSync")

(***************************************************************************)
(* C4  Source not found, streaming.  A validated request to the streaming  *)
(* endpoint whose src is no file that can be opened is answered with 404   *)
(* and the body "Image file not found: <src>", never with a 200 whose body *)
(* then fails.                                                             *)
(***************************************************************************)
C4_StreamNotFound ==
  (Returned /\ Streaming /\ PassesValidation /\ ~Readable(StreamPath(req.src)))
  => /\ resp.status = 404
     /\ resp.text = <<"Image file not found: ">> \o req.src

(***************************************************************************)
(* C5  Missing source.  A request whose src is absent or empty is answered *)
(* with 400 "Source image URL is required" on both endpoints, whatever w,  *)
(* h and format are.                                                       *)
(***************************************************************************)
C5_MissingSource ==
  (Returned /\ req.src \in {Null, <<>>})
  => /\ resp.status = 400
     /\ resp.text = <<"Source image URL is required">>

C5_Witness ==
  /\ Returned
  /\ req.src = <<>> /\ req.w = <<"a">> /\ req.format = <<"j", "p", "e", "g">>
  /\ resp.status = 400
  /\ resp.text = <<"Source image URL is required">>

(***************************************************************************)
(* C6  Numeric validation.  A request in which w or h is given and is not, *)
(* as a whole, a base-10 integer string (digits followed by other          *)
(* characters included) is answered with 400.  An empty value is read as   *)
(* absent here, the reading that asks least of the loaders.                *)
(***************************************************************************)
C6_NumericValidation ==
  (/\ Returned
   /\ \/ (Given(req.w) /\ ~IsIntString(req.w))
      \/ (Given(req.h) /\ ~IsIntString(req.h)))
  => resp.status = 400

(***************************************************************************)
(* C7  Format validation.  format is accepted exactly when it is absent,   *)
(* "webp" or "avif": any other value is answered with 400, the format      *)
(* message is never the answer to one of the three, and with format absent *)
(* no format conversion is configured and the output keeps the source's    *)
(* encoding.                                                               *)
(***************************************************************************)
C7_FormatValidation ==
  Returned
  => /\ req.format \notin {Null, Webp, Avif} => resp.status = 400
     /\ resp.text = <<"Format must be one of: webp, avif">>
          => req.format \notin {Null, Webp, Avif}
     /\ (req.format \in {Null, Webp, Avif} /\ TruthyStr(req.src)
           /\ DimOk(ParseDim(req.w)) /\ DimOk(ParseDim(req.h)))
          => resp.status # 400
     /\ req.format = Null
          => /\ ~Called("toFormat")
             /\ (resp.status = 200 /\ resp.body = "complete")
                  => EncOf(resp.bytes[1]) = EncOf(SourceBytes[1])

C7_Witness ==
  /\ Returned
  /\ req.format = <<"W", "E", "B", "P">> /\ req.src = <<"/", "cat">>
  /\ req.w = NumStr(1) /\ req.h = NumStr(1)
  /\ resp.status = 400
  /\ resp.text = <<"Format must be one of: webp, avif">>

(***************************************************************************)
(* C8  Validate before I/O.  In either loader no file read, no stream open *)
(* and no codec call is made before src, w, h and format have all passed   *)
(* validation: whenever such a call has been made or a stream exists, the  *)
(* loader is past its last validation step and the request is valid; and a *)
(* request answered with 400 has made none of these calls.                 *)
(***************************************************************************)
C8_ValidateBeforeIO ==
  /\ ((\E e \in IOCalls : Called(e)) \/ fstream.state # "none" \/ xform.state # "none")
       => /\ PassesValidation
          /\ pc \notin {"idle", "clearMemory", "snapshot", "validateSrc",
                        "validateDims", "validateFormat"}
  /\ resp.status = 400
       => /\ \A e \in IOCalls : ~Called(e)
          /\ fstream.state = "none"
          /\ xform.state = "none"

C8_Witness ==
  /\ pc = "branch" /\ Streaming
  /\ Called("createReadStream") /\ fstream.state = "opening"
  /\ PassesValidation
  /\ req.format = Avif /\ req.w = <<"1", "2", "a">>

TransformFailed ==
  \/ Called("resize") /\ ResizeThrows(local.width, local.height)
  \/ Called("toBuffer") /\ ~Decodable(local.buffer)
  \/ xform.state = "errored"

C11_TransformFailure ==
  (Returned /\ TransformFailed)
  => /\ resp.status = 500
     /\ Len(resp.text) = 2
     /\ resp.text[1] = "Error processing image: "

(***************************************************************************)
(* C12  Catch-all classification.  Every request ends with one of the      *)
(* statuses 200, 400, 404, 500; a fault that is neither a validation       *)
(* failure nor a missing source is a 500: a source that exists but cannot  *)
(* be read as a file is not a 404, and a fault of a stream after the       *)
(* streaming loader has returned is a 500 and never a body that fails.     *)
(***************************************************************************)
C12_CatchAll ==
  Returned
  => /\ resp.status \in {200, 400, 404, 500}
     /\ (PassesValidation /\ SourcePath \in Dirs) => resp.status = 500
     /\ (fstream.state = "errored" \/ xform.state = "errored") => resp.status = 500
     /\ resp.body # "errored"

(***************************************************************************)
(* C13  Memory header.  Every 200 response of either endpoint carries      *)
(* X-Memory-Usage with the value "<d> bytes", d being the signed integer   *)
(* after-snapshot minus before-snapshot of the same request: the header    *)
(* reads back as that integer, negative ones included, and a response      *)
(* with a negative d is a 200 like any other.                              *)
(***************************************************************************)
BytesSuffix == <<" ", "b", "y", "t", "e", "s">>

C13_MemoryHeader ==
  (Returned /\ resp.status = 200)
  => /\ resp.hasMemory
     /\ Len(resp.memory) > Len(BytesSuffix)
     /\ SubSeq(resp.memory, Len(resp.memory) - 5, Len(resp.memory)) = BytesSuffix
     /\ IsIntString(SubSeq(resp.memory, 1, Len(resp.memory) - 6))
     /\ parseInt(resp.memory) = Num(local.after - local.before)

C13_Witness ==
  /\ Returned /\ Streaming /\ req.format = Avif
  /\ resp.status = 200
  /\ local.before = 1 /\ local.after = 0
  /\ resp.memory = <<"-", "1", " ", "b", "y", "t", "e", "s">>

(***************************************************************************)
(* C14  Equivalence of the two endpoints.  For every request the buffered  *)
(* and the streaming loader give the same status, the same Content-Type    *)
(* and the same body bytes, and resolve src to the same file: whichever    *)
(* endpoint served the request, its response is the one the buffered       *)
(* loader arrives at and the one the streaming loader arrives at.          *)
(***************************************************************************)
\* the response so far is the one of outcome o
Agrees(o) ==
  /\ resp.status = o.status
  /\ resp.contentType = o.contentType
  /\ resp.text = o.text
  /\ IsPrefix(o.bytes)
  /\ resp.body = "complete" => (o.body = "complete" /\ resp.bytes = o.bytes)
  /\ resp.body = "errored" => o.body = "errored"

C14_EndpointsEquivalent ==
  Returned
  => /\ Agrees(BufferedOutcome(req))
     /\ Agrees(StreamOutcome(req))
     /\ PassesValidation => BufferedPath(req.src) = StreamPath(req.src)

(***************************************************************************)
(* C15  Determinism.  The status and the body of a response depend only on *)
(* the request's parameters and the source bytes: whatever requests were   *)
(* served before and whatever the memory snapshots were, a returned        *)
(* response is the one its loader arrives at for that request, so the same *)
(* request gives the same status and the same bytes every time.            *)
(***************************************************************************)
C15_Deterministic ==
  Returned => Agrees(IF Buffered THEN BufferedOutcome(req) ELSE StreamOutcome(req))

\* a buffered transform served after a streaming request, with snapshots
\* that differ
C15_Witness ==
  /\ Returned /\ Buffered /\ proc.exposeGc
  /\ req.src = <<"/", "cat">> /\ req.format = Webp
  /\ req.w = NumStr(1) /\ req.h = NumStr(2)
  /\ local.before = 1 /\ local.after = 0
  /\ resp.status = 200
  /\ resp.bytes = <<82, 1, 2, 7, 0>>

(***************************************************************************)
(* C16  Isolation.  With two requests in flight, suspended and resumed at  *)
(* their awaits in any order, each invocation works on its own source: the *)
(* buffer it holds is its own file's bytes, its streams read its own path, *)
(* and the response it returns is the one its loader arrives at for its    *)
(* request alone.                                                          *)
(***************************************************************************)
OutcomeFor(r) ==
  IF r.endpoint = "img" THEN BufferedOutcome(r) ELSE StreamOutcome(r)

Isolated(c) ==
  /\ (c.req.endpoint = "img" /\ c.pc \in {"branch", "toBuffer", "respond"})
     => c.local.buffer = FileBytes(BufferedPath(c.req.src))
  /\ c.fstream.state # "none" => c.fstream.path = StreamPath(c.req.src)
  /\ c.pc = "done"
     => LET o == OutcomeFor(c.req)
            n == Len(c.resp.bytes)
        IN  /\ c.resp.status = o.status
            /\ c.resp.contentType = o.contentType
            /\ c.resp.text = o.text
            /\ n <= Len(o.bytes)
            /\ c.resp.bytes = SubSeq(o.bytes, 1, n)
            /\ c.resp.body = "complete" => c.resp.bytes = o.bytes

C16_Isolation == Isolated(Ctx) /\ Isolated(parked)

\* a streamed passthrough of one file completed while a buffered transform
\* of another file is suspended at toBuffer
C16_Witness ==
  /\ Returned /\ Streaming /\ req.src = <<"/", "pic">>
  /\ resp.body = "complete" /\ resp.bytes = FileBytes(StreamPath(req.src))
  /\ parked.pc = "toBuffer" /\ parked.req.endpoint = "img"
  /\ parked.req.src = <<"/", "cat">>
  /\ parked.local.buffer = FileBytes(BufferedPath(parked.req.src))

(***************************************************************************)
(* C17  Cancellation.  Once the client has cancelled the body of a         *)
(* streaming response, no stage of that request stays open: the codec      *)
(* stream is stopped and the source file stream is closed, or is still     *)
(* taking the step that closes it.                                         *)
(***************************************************************************)
SourceClosed == fstream.state \in {"none", "ended", "errored", "destroyed"}

SourceMoving == ENABLED FileRead \/ ENABLED FileEnd

CodecStopped == xform.state \in {"none", "ended", "errored", "destroyed"}

C17_CancelPropagates ==
  (Returned /\ resp.body = "cancelled")
  => /\ CodecStopped
     /\ SourceClosed \/ SourceMoving \/ fstream.state = "opening"

(***************************************************************************)
(* C18  Source handle release.  Once a loader has returned, and the client *)
(* has not cancelled, the source it opened is released or on its way to    *)
(* being released: the file stream is closed, or is being opened, or is    *)
(* being read towards its end; and when the request is over the buffer is  *)
(* dropped.  This covers the 500 answers given after the stream's creation.*)
(***************************************************************************)
C18_SourceReleased ==
  /\ (Returned /\ resp.body # "cancelled")
     => SourceClosed \/ SourceMoving \/ fstream.state = "opening"
  /\ pc = "idle" => local.buffer = <<>>

(***************************************************************************)
(* C19  Passthrough content type.  On both endpoints a 200 response to a   *)
(* request without w, h and format, and any 200 response made without a    *)
(* codec, declares Content-Type image/png, whatever the encoding of the    *)
(* source bytes.                                                           *)
(***************************************************************************)
C19_PassthroughContentType ==
  (Returned /\ resp.status = 200)
  => /\ (req.w = Null /\ req.h = Null /\ req.format = Null)
        => (resp.contentType = ImagePng /\ ~Called("sharp"))
     /\ ~Called("sharp") => resp.contentType = ImagePng

\* a JPEG file passed through by the buffered loader as image/png
C19_Witness ==
  /\ Returned /\ Buffered
  /\ req.w = Null /\ req.h = Null /\ req.format = Null
  /\ req.src = <<"/", "pic">>
  /\ resp.status = 200
  /\ resp.bytes = SourceBytes
  /\ EncOf(resp.bytes[1]) = "jpeg"
  /\ resp.contentType = ImagePng

(***************************************************************************)
(* C20  Snapshot placement.  In every execution that returns 200, the      *)
(* first memory snapshot comes before the query parameters are read, and   *)
(* the second comes after the source was read or its stream made and after *)
(* the codec was set up.  In the buffered loader it comes after toBuffer   *)
(* has given the whole processed buffer, which is the body.  In the        *)
(* streaming loader it comes after pipe() and is the last thing before the *)
(* return: no byte has left the file or reached the body before it, and    *)
(* the codec runs only after it.                                           *)
(***************************************************************************)
Snapshots == {i \in 1..Len(log) : log[i] = "memoryUsage"}

\* every call of e comes after the first snapshot and before the last
Wrapped(e) ==
  \A j \in 1..Len(log) :
    log[j] = e => /\ \E i \in Snapshots : i < j
                  /\ \E i \in Snapshots : j < i

\* every call of e comes after every snapshot
AfterSnapshots(e) ==
  \A j \in 1..Len(log) : log[j] = e => \A i \in Snapshots : i < j

C20_SnapshotPlacement ==
  /\ (Returned /\ resp.status = 200)
     => /\ Cardinality(Snapshots) = 2
        /\ Called("parse")
        /\ \A j \in 1..Len(log) :
             log[j] = "parse" => Cardinality({i \in Snapshots : i < j}) = 1
        /\ \A e \in {"readFileSync", "createReadStream", "sharp", "toFormat",
                     "resize", "toBuffer", "pipe"} : Wrapped(e)
        /\ AfterSnapshots("flush")
        /\ Buffered => /\ Called("readFileSync")
                       /\ log[Len(log)] = "memoryUsage"
                       /\ Called("sharp") => (Called("toBuffer")
                                              /\ resp.bytes = local.processed)
        /\ Streaming => /\ Called("createReadStream")
                        /\ Called("sharp") => Called("pipe")
  /\ (Streaming /\ ~Returned)
     => /\ resp.bytes = <<>>
        /\ fstream.pos = 0
        /\ xform.input = <<>>
        /\ fstream.state \in {"none", "opening"}

\* a streaming transform at its return: the stream is piped, the snapshot is
\* the last call, nothing has been read
C20_Witness ==
  /\ Returned /\ Streaming /\ resp.status = 200
  /\ log = <<"gc", "memoryUsage", "parse", "createReadStream", "sharp",
             "toFormat", "pipe", "memoryUsage">>
  /\ fstream.state = "opening" /\ fstream.to = "pipeline"
  /\ resp.bytes = <<>> /\ resp.body = "open"

(***************************************************************************)
(* C21  Stage order, as claimed: the first memory snapshot is taken after  *)
(* validation and source resolution, so whenever a snapshot has been       *)
(* taken the source has already been read or its stream made.              *)
(***************************************************************************)
C21_StageOrderAsClaimed ==
  \A i \in Snapshots :
    \E j \in 1..Len(log) :
      j < i /\ log[j] \in {"readFileSync", "createReadStream"}

(***************************************************************************)
(* C21  Stage order, as the loaders run: first snapshot, then the reading  *)
(* and validation of the parameters, then the resolver (read or stream     *)
(* creation), then the codec's configuration and its run or pipe, then the *)
(* second snapshot, then the response; a streamed codec run comes last.    *)
(* The validator runs with exactly one snapshot taken and nothing read;    *)
(* the resolver runs only for a request that passed validation.            *)
(***************************************************************************)
StageRank(i) ==
  CASE log[i] = "gc" -> 0
    [] log[i] = "memoryUsage" -> IF \A j \in Snapshots : i <= j THEN 1 ELSE 6
    [] log[i] = "parse" -> 2
    [] log[i] \in {"readFileSync", "createReadStream"} -> 3
    [] log[i] \in {"sharp", "toFormat", "resize"} -> 4
    [] log[i] \in {"toBuffer", "pipe"} -> 5
    [] OTHER -> 7

C21_StageOrder ==
  /\ \A i, j \in 1..Len(log) : i < j => StageRank(i) < StageRank(j)
                                        \/ (StageRank(i) = 4 /\ StageRank(j) = 4)
  /\ pc \in {"validateSrc", "validateDims", "validateFormat", "resolve"}
     => /\ Cardinality(Snapshots) = 1
        /\ log[Len(log)] = "parse"
  /\ (Called("readFileSync") \/ Called("createReadStream")) => PassesValidation
  /\ (Returned /\ resp.status = 200)
     => /\ Cardinality(Snapshots) = 2
        /\ Called("readFileSync") \/ Called("createReadStream")

\* a buffered transform: snapshot, parameters, read, codec, snapshot
C21_Witness ==
  /\ Returned /\ Buffered /\ resp.status = 200
  /\ log = <<"memoryUsage", "parse", "readFileSync", "sharp", "resize",
             "toFormat", "toBuffer", "memoryUsage">>

(***************************************************************************)
(* C22  Zero and negative dimensions.  A w or h that parses to zero or to  *)
(* a negative integer is never answered with the 400 of its validation.    *)
(* Unless both dimensions parse to numbers other than zero, no resize is   *)
(* called, a decodable source is answered 200 at its own dimensions, and   *)
(* when the request without those values is on the transform path the      *)
(* response is the one that request gets.  When                            *)
(* both parse to numbers other than zero, resize is called with the two    *)
(* values as given.                                                        *)
(***************************************************************************)
NonPositive(x) == x.t = "number" /\ x.v <= 0

\* the request with its zero and negative dimensions left out
WithoutNonPositive(r) ==
  [r EXCEPT !.w = IF NonPositive(ParseDim(r.w)) THEN Null ELSE r.w,
            !.h = IF NonPositive(ParseDim(r.h)) THEN Null ELSE r.h]

C23_NoSharedMutation == proc = [exposeGc |-> FALSE]

(***************************************************************************)
(* C24  Source path resolution.  For every validated request, on either    *)
(* endpoint, the file that is opened is the one named by the root "public" *)
(* joined with src as given: the read or the stream is of that file, a 404 *)
(* is given exactly when it cannot be read, and a src with ".." segments   *)
(* is followed out of the root and not rejected.                           *)
(***************************************************************************)
\* the root joined with src, as the operating system resolves it
JoinedPath(src) == Walk(Split(<<"public", "/">> \o src), <<>>)

C24_PathResolution ==
  PassesValidation
  => /\ fstream.state # "none" => fstream.path = JoinedPath(req.src)
     /\ (Buffered /\ Called("readFileSync"))
        => /\ resp.status = 404 <=> ~Readable(JoinedPath(req.src))
           /\ resp.status # 404 => local.buffer = FileBytes(JoinedPath(req.src))
     /\ (Returned /\ req.src = <<"/", ".", ".", "/", "secret">>)
        => resp.status \notin {400, 404}

(***************************************************************************)
(* C25  Empty optional parameters.  A w or h given with an empty value is  *)
(* treated as an absent one: it is parsed to null, is never answered with  *)
(* the 400 of its validation, and the response is the one the request      *)
(* without it gets.  A format given with an empty value is not: a request  *)
(* that is valid but for it is answered 400 "Format must be one of: webp,  *)
(* avif".                                                                  *)
(***************************************************************************)
FormatMessage == <<"Format must be one of: webp, avif">>

C25_EmptyParameters ==
  /\ (Returned /\ req.w = <<>>)
     => /\ resp.text # <<"Width must be unset or a positive number">>
        /\ local.width = JsNull
        /\ Agrees(OutcomeFor([req EXCEPT !.w = Null]))
  /\ (Returned /\ req.h = <<>>)
     => /\ resp.text # <<"Height must be unset or a positive number">>
        /\ local.height = JsNull
        /\ Agrees(OutcomeFor([req EXCEPT !.h = Null]))
  /\ (Returned /\ req.format = <<>>
      /\ TruthyStr(req.src) /\ DimOk(ParseDim(req.w)) /\ DimOk(ParseDim(req.h)))
     => /\ resp.status = 400
        /\ resp.text = FormatMessage
        /\ ~Agrees(OutcomeFor([req EXCEPT !.format = Null]))

\* ?w=&format= : the empty w got past its validation as null, the empty
\* format was rejected
C25_Witness ==
  /\ Returned /\ Streaming
  /\ req.src = <<"/", "cat">>
  /\ req.w = <<>> /\ req.h = Null /\ req.format = <<>>
  /\ local.width = JsNull
  /\ resp.status = 400 /\ resp.text = FormatMessage

(***************************************************************************)
(* C26  Configuration order.  The buffered loader calls resize and then    *)
(* toFormat, the streaming loader toFormat and then resize.  For a request *)
(* with w, h and format that both calls accept, the two orders give the    *)
(* same configuration, it is the one the loader runs, and the completed    *)
(* output has the requested dimensions and encoding.                       *)
(***************************************************************************)
Before(a, b) ==
  \E i, j \in 1..Len(log) : i < j /\ log[i] = a /\ log[j] = b

MaxLoads == 2

UiSources == {<<"/", "cat">>, <<"/", "pic">>, <<"/", "nope">>}

\* previewUrl: src always, w and h when they are truthy, format unless it
\* is "original"; the URL is kept as the query the loader will read
PreviewUrl(p) ==
  [endpoint |-> p.endpoint,
   src |-> p.src,
   w |-> IF Truthy(p.width) THEN NumStr(p.width.v) ELSE Null,
   h |-> IF Truthy(p.height) THEN NumStr(p.height.v) ELSE Null,
   format |-> IF p.format # Original THEN p.format ELSE Null]

Pending == [state |-> "pending", width |-> 0, height |-> 0]

\* response.statusText
StatusText(status) ==
  CASE status = 400 -> <<"Bad Request">>
    [] status = 404 -> <<"Not Found">>
    [] OTHER -> <<"Internal Server Error">>

\* the image element can show the response to url
Showable(url) ==
  LET o == OutcomeFor(url)
  IN o.status = 200 /\ o.body = "complete" /\ Decodable(o.bytes)

ServerIdle == UNCHANGED <<pc, req, local, resp, fstream, xform, log, proc, parked>>

\* handleInputChange: one field of the form gets a new value (the source or
\* the endpoint; width and height stay empty)
HandleInputChange ==
  /\ ui.mounted /\ ~ui.effect
  /\ \E p \in {[ui.imageParams EXCEPT !.src = v] : v \in UiSources}
              \cup {[ui.imageParams EXCEPT !.endpoint = v] : v \in Endpoints} :
       /\ p # ui.imageParams
       /\ ui' = [ui EXCEPT !.imageParams = p]
  /\ ServerIdle

\* loadImage(): nothing when the URL is the current one; otherwise a new
\* promise goes into the ref, the URL becomes current (the image element
\* starts to load it and the effect on currentUrl is due) and
\* fetchImageStats() starts with this render's previewUrl and imageParams
loadImage(u) ==
  IF u.currentUrl = PreviewUrl(u.imageParams) THEN u
  ELSE [u EXCEPT !.promises = Append(@, Pending),
                 !.imageDimensions = Len(u.promises) + 1,
                 !.errorMessage = Null,
                 !.currentUrl = PreviewUrl(u.imageParams),
                 !.imageLoading = TRUE,
                 !.loads = Append(@, [url |-> PreviewUrl(u.imageParams),
                                      params |-> u.imageParams,
                                      stage |-> "fetch",
                                      awaited |-> 0,
                                      memoryUsage |-> <<>>]),
                 !.img = "loading",
                 !.effect = TRUE]

\* the effect run once on mount
Mount ==
  /\ ~ui.mounted
  /\ ui' = [loadImage(ui) EXCEPT !.mounted = TRUE]
  /\ ServerIdle

\* the Load Image button, disabled while currentUrl === previewUrl
ClickLoad ==
  /\ ui.mounted /\ ~ui.effect
  /\ Len(ui.loads) < MaxLoads
  /\ ui.currentUrl # PreviewUrl(ui.imageParams)
  /\ ui' = loadImage(ui)
  /\ ServerIdle

\* the effect on [currentUrl], run with the render that follows loadImage
UrlEffect ==
  /\ ui.effect
  /\ ui' = [ui EXCEPT !.imageLoading = IF ui.currentUrl # NoReq THEN TRUE ELSE @,
                      !.effect = FALSE]
  /\ ServerIdle

\* fetchImageStats after await fetch(previewUrl): the loading flag goes off;
\* a response that is not ok or has no header ends the call with a message;
\* otherwise the call reads the ref and awaits the promise it finds there.
\* The header of a 200 is there; its figure is a different one for each fetch
FetchSettle ==
  /\ ~ui.effect
  /\ \E i \in 1..Len(ui.loads) :
       /\ ui.loads[i].stage = "fetch"
       /\ LET o == OutcomeFor(ui.loads[i].url)
              memoryUsage == IF o.status = 200 THEN MemoryHeader(i, 0) ELSE Null
          IN ui' =
               IF o.status # 200
               THEN [ui EXCEPT !.imageLoading = FALSE,
                               !.errorMessage = StatusText(o.status),
                               !.loads[i].stage = "returned"]
               ELSE IF ~TruthyStr(memoryUsage)
               THEN [ui EXCEPT !.imageLoading = FALSE,
                               !.errorMessage = <<"Memory usage header not found">>,
                               !.loads[i].stage = "returned"]
               ELSE IF ui.imageDimensions = 0
               THEN [ui EXCEPT !.imageLoading = FALSE,
                               !.errorMessage = <<"Image dimensions not found">>,
                               !.loads[i].stage = "returned"]
               ELSE [ui EXCEPT !.imageLoading = FALSE,
                               !.loads[i].stage = "dimensions",
                               !.loads[i].awaited = ui.imageDimensions,
                               !.loads[i].memoryUsage = memoryUsage]
  /\ ServerIdle

\* fetch() rejects (the network fails): the await throws out of
\* fetchImageStats, whose promise nobody handles
FetchReject ==
  /\ ~ui.effect
  /\ \E i \in 1..Len(ui.loads) :
       /\ ui.loads[i].stage = "fetch"
       /\ ui' = [ui EXCEPT !.loads[i].stage = "rejected"]
  /\ ServerIdle

\* the item put at the end of the history
AddToHistory_append ==
  /\ ~ui.effect
  /\ \E i \in 1..Len(ui.loads) :
       /\ ui.loads[i].stage = "dimensions"
       /\ ui.promises[ui.loads[i].awaited].state = "resolved"
       /\ LET o == OutcomeFor(ui.loads[i].url)
              dimensions == ui.promises[ui.loads[i].awaited]
              historyItem ==
                [requestedParams |-> ui.loads[i].params,
                 imageStats |-> [width |-> dimensions.width,
                                 height |-> dimensions.height,
                                 fileSize |-> Len(o.bytes),
                                 memoryUsage |-> ui.loads[i].memoryUsage]]
          IN ui' =
               IF o.body = "complete"
               THEN [ui EXCEPT !.imageHistory = @ \o <<historyItem>>,
                               !.loads[i].stage = "returned"]
               ELSE IF o.body = "errored"
               THEN [ui EXCEPT !.loads[i].stage = "rejected"]
               ELSE [ui EXCEPT !.loads[i].stage = "blob"]
  /\ ServerIdle

\* fetchImageStats once the awaited promise has resolved: await
\* response.blob(), then the item is put in front of the history
AddToHistory ==
  /\ ~ui.effect
  /\ \E i \in 1..Len(ui.loads) :
       /\ ui.loads[i].stage = "dimensions"
       /\ ui.promises[ui.loads[i].awaited].state = "resolved"
       /\ LET o == OutcomeFor(ui.loads[i].url)
              dimensions == ui.promises[ui.loads[i].awaited]
              historyItem ==
                [requestedParams |-> ui.loads[i].params,
                 imageStats |-> [width |-> dimensions.width,
                                 height |-> dimensions.height,
                                 fileSize |-> Len(o.bytes),
                                 memoryUsage |-> ui.loads[i].memoryUsage]]
          IN ui' =
               IF o.body = "complete"
               THEN [ui EXCEPT !.imageHistory = <<historyItem>> \o @,
                               !.loads[i].stage = "returned"]
               ELSE IF o.body = "errored"
               THEN [ui EXCEPT !.loads[i].stage = "rejected"]
               ELSE [ui EXCEPT !.loads[i].stage = "blob"]
  /\ ServerIdle

\* onLoad of the image element: the promise in the ref is resolved with the
\* natural size of the image shown (a resolved promise stays as it is)
ImgOnLoad ==
  /\ ~ui.effect
  /\ ui.img = "loading"
  /\ Showable(ui.currentUrl)
  /\ LET shown == DecodeImage(OutcomeFor(ui.currentUrl).bytes)
         k == ui.imageDimensions
     IN ui' = [ui EXCEPT !.img = "loaded",
                         !.promises =
                            IF k # 0 /\ @[k].state = "pending"
                            THEN [@ EXCEPT ![k] = [state |-> "resolved",
                                                   width |-> shown.w,
                                                   height |-> shown.h]]
                            ELSE @]
  /\ ServerIdle

\* the image element cannot show the response: no onLoad, and the page has
\* no onError
ImgFails ==
  /\ ~ui.effect
  /\ ui.img = "loading"
  /\ ~Showable(ui.currentUrl)
  /\ ui' = [ui EXCEPT !.img = "broken"]
  /\ ServerIdle

\* the Clear button of the error box
ClearError ==
  /\ ~ui.effect
  /\ ui.errorMessage # Null
  /\ ui' = [ui EXCEPT !.errorMessage = Null, !.imageLoading = FALSE]
  /\ ServerIdle

\* the Clear History button, shown while the history is not empty
ClearHistory ==
  /\ ~ui.effect
  /\ ui.imageHistory # <<>>
  /\ ui' = [ui EXCEPT !.imageHistory = <<>>]
  /\ ServerIdle

NextUi ==
  \/ Mount
  \/ HandleInputChange
  \/ ClickLoad
  \/ UrlEffect
  \/ FetchSettle
  \/ FetchReject
  \/ AddToHistory
  \/ ImgOnLoad
  \/ ImgFails
  \/ ClearError
  \/ ClearHistory

SpecUi == Init /\ [][NextUi]_vars

(***************************************************************************)
(* C27  History pairing.  Whatever the order of loadImage calls, fetch     *)
(* completions and onLoad events, every history item holds, next to the    *)
(* parameters of one load, the width, height and file size of the image    *)
(* that load's URL gives.                                                  *)
(***************************************************************************)
MeasuredFor(item) ==
  LET o == OutcomeFor(PreviewUrl(item.requestedParams))
  IN /\ Showable(PreviewUrl(item.requestedParams))
     /\ item.imageStats.width = DecodeImage(o.bytes).w
     /\ item.imageStats.height = DecodeImage(o.bytes).h
     /\ item.imageStats.fileSize = Len(o.bytes)

C27_HistoryPairing ==
  \A k \in 1..Len(ui.imageHistory) : MeasuredFor(ui.imageHistory[k])

(***************************************************************************)
(* C28  Loading state.  Once every fetch that was started has settled,     *)
(* whether with an ok response, a response that is not ok or a rejection,  *)
(* and the effect on currentUrl has run, imageLoading is false.  And a     *)
(* call that got an ok response with the header is never left waiting: its *)
(* item is in the history, or the step that adds it can be taken, or the   *)
(* image it waits for is still loading.                                    *)
(***************************************************************************)
FetchesSettled ==
  /\ ui.mounted /\ ~ui.effect
  /\ \A i \in 1..Len(ui.loads) : ui.loads[i].stage # "fetch"

C28_LoadingSettles ==
  /\ FetchesSettled => ~ui.imageLoading
  /\ \A i \in 1..Len(ui.loads) :
       ui.loads[i].stage = "dimensions"
       => \/ ui.promises[ui.loads[i].awaited].state = "resolved"
          \/ /\ ui.imageDimensions = ui.loads[i].awaited
             /\ ui.img = "loading"
             /\ Showable(ui.currentUrl)

(***************************************************************************)
(* C29  The history is a newest-first log.  A step changes the history     *)
(* only by putting one item in front of it, for a call whose fetch got a   *)
(* 200 with the header and whose awaited dimensions are resolved, the item *)
(* holding that call's parameters; or by Clear History, which empties it.  *)
(* The items already there stay as they are, in their order.  A fetch is   *)
(* started only when the URL differs from the current one, and the step    *)
(* that starts it adds no item; a response that is not ok adds none.       *)
(***************************************************************************)
Prepends(i) ==
  /\ ui.loads[i].stage = "dimensions"
  /\ OutcomeFor(ui.loads[i].url).status = 200
  /\ TruthyStr(ui.loads[i].memoryUsage)
  /\ ui.promises[ui.loads[i].awaited].state = "resolved"
  /\ ui'.loads[i].stage = "returned"
  /\ Len(ui'.imageHistory) = Len(ui.imageHistory) + 1
  /\ Tail(ui'.imageHistory) = ui.imageHistory
  /\ Head(ui'.imageHistory).requestedParams = ui.loads[i].params
  /\ Head(ui'.imageHistory).imageStats.memoryUsage = ui.loads[i].memoryUsage

C29_HistoryLog ==
  [][/\ \/ ui'.imageHistory = ui.imageHistory
        \/ ui'.imageHistory = <<>> /\ ui' = [ui EXCEPT !.imageHistory = <<>>]
        \/ \E i \in 1..Len(ui.loads) : Prepends(i)
     /\ Len(ui'.loads) > Len(ui.loads)
        => /\ ui.currentUrl # PreviewUrl(ui.imageParams)
           /\ ui'.imageHistory = ui.imageHistory
     /\ \A i \in 1..Len(ui.loads) :
          (/\ ui.loads[i].stage = "fetch" /\ ui'.loads[i].stage # "fetch"
           /\ OutcomeFor(ui.loads[i].url).status # 200)
          => /\ ui'.imageHistory = ui.imageHistory
             /\ ui'.loads[i].stage \in {"returned", "rejected"}]_vars

\* two loads, two items, the second load's item in front
C29_Witness ==
  /\ Len(ui.loads) = 2 /\ Len(ui.imageHistory) = 2
  /\ ui.loads[1].params # ui.loads[2].params
  /\ ui.imageHistory[1].requestedParams = ui.loads[2].params
  /\ ui.imageHistory[2].requestedParams = ui.loads[1].params

=============================================================================
